---- MODULE Spec2Model ----
(***************************************************************************)
(* Entry/exit portal over a hosted document store: the service layer       *)
(* (services/firebase.ts), the portal's action handler and button guards   *)
(* (components/portal/EntryExitPortal.tsx) and the access rules            *)
(* (firestore.rules, README.md).                                           *)
(*                                                                         *)
(* A document is a record whose field "exists" tells whether it is stored; *)
(* a stored document is a function from the names of the fields it has to  *)
(* their values, so a document created by a merge into a missing one has   *)
(* only the merged fields.                                                 *)
(***************************************************************************)
EXTENDS Integers, Sequences, FiniteSets, TLC

VARIABLES
  externals,     \* collection "externals": identifier -> document
  usedBids,      \* document usedBids/bids: [exists, usedBids (a set)]
  actionLogs,    \* collection "actionLogs", in order of creation
  call,          \* the last service call: its arguments, the outcome of each
                 \* of its writes and the store it started from
  portal,        \* the state of each portal session (EntryExitPortal)
  reg,           \* each onSpotRegistration caller: its position and locals
  regHist,       \* what the registrations and imports have done so far
  users,         \* collection "users": document id -> profile document
  accounts,      \* the auth accounts created by volunteer registration
  ruleset,       \* the access rules deployed: "readme" or "file"
  upload,        \* the uploadCSVData call: its rows, loop position and count
  gen            \* the generateUniqueBid call: its position, bid and result

storeVars == <<externals, usedBids, actionLogs>>

regVars == <<reg, regHist>>

rulesVars == <<users, ruleset, accounts>>

vars ==
  <<externals, usedBids, actionLogs, call, portal, reg, regHist, users,
    ruleset, accounts, upload, gen>>

----------------------------------------------------------------------------
(* Bounds and value sets *)

MaxLog == 2

Bids == {"B1", "B2"}

ActionType == {"gate-in", "check-in", "check-out", "gate-out", "payment"}

PaymentValues == {"paid", "not paid"}

StatusValues ==
  {"not arrived", "gated in", "checked in", "checked out", "gate out"}

\* The users that can be logged in to the portal (types.ts, User).
Users ==
  { [uid |-> "uA", name |-> "Asha", role |-> "admin"],
    [uid |-> "uV", name |-> "Ravi", role |-> "volunteer"] }

NoDoc == [exists |-> FALSE]

NoCall == [op |-> "none"]

NoUser == [uid |-> "", name |-> "", role |-> "none"]

Sessions == {"s1", "s2"}

\* A session before login: the initial useState values of EntryExitPortal.
\* loading is the set of actions whose loading indicator is on; refetch is
\* the identifier of the fetchUserData started by a finished handleAction
\* and not yet completed ("" when there is none); flights are the
\* handleAction calls waiting for updateExternalStatus, each with the uid and
\* the status label its closure holds.
LoggedOut ==
  [uid |-> "", userData |-> NoDoc, status |-> "", loading |-> {},
   loggedInUser |-> NoUser, refetch |-> "", flights |-> << >>]

\* request.auth of a client that is not signed in.
Anonymous == ""

\* The auth accounts: an admin, a volunteer, and one without a profile.
AuthUids == {"uA", "uV", "uN"}

\* The profile documents, stored under the auth uid.
Profiles ==
  [a \in AuthUids |->
     IF \E u \in Users : u.uid = a
     THEN LET u == CHOOSE u \in Users : u.uid = a IN
          [exists |-> TRUE, uid |-> u.uid, name |-> u.name, role |-> u.role]
     ELSE NoDoc]

\* README.md "Firebase Security Rules" and firestore.rules.
Rulesets == {"readme", "file"}

\* uploadCSVData: rows is its argument, idx the row the loop is at, processed
\* the rows handed to createExternal so far and results the outcome for each,
\* writes the number of participant records written, returned the value
\* returned.
NoUpload ==
  [pc |-> "idle", rows |-> << >>, idx |-> 1, successCount |-> 0,
   processed |-> << >>, results |-> << >>, writes |-> 0, returned |-> -1]

\* generateUniqueBid before it is called: chars are the characters drawn in
\* the current round, bid their join, returned the value returned.
NoGen == [pc |-> "idle", chars |-> << >>, bid |-> "", returned |-> ""]

Procs == {"p1", "p2"}

\* A caller of onSpotRegistration: the registrant's name, the position in the
\* function, the local bid, the used-identifier list and the imports as they
\* were when the call started, whether a record was stored under bid when
\* generateUniqueBid read the list, the value returned or the error thrown,
\* and the number of calls made.
RegIdle ==
  [pc |-> "idle", bid |-> "", startUsed |-> {}, startImported |-> {},
   docAtRead |-> FALSE, result |-> "", calls |-> 0]

\* handedOut: the identifiers returned, each with the imports made before its
\* call started; writes: the record writes of onSpotRegistration in order;
\* imported: the identifiers createExternal has stored.
NoRegHist == [handedOut |-> << >>, writes |-> << >>, imported |-> {}]

----------------------------------------------------------------------------
(* Documents *)

\* A boolean field read the way the portal reads it: a missing field is falsy.
Flag(d, f) == d.exists /\ f \in DOMAIN d /\ d[f]

\* A string field; a missing field reads as undefined.
Str(d, f) == IF d.exists /\ f \in DOMAIN d THEN d[f] ELSE "undefined"

\* setDoc(ref, data): the document becomes exactly data.
SetDoc(data) ==
  [f \in (DOMAIN data) \cup {"exists"} |->
     IF f = "exists" THEN TRUE ELSE data[f]]

\* setDoc(ref, data, {merge: true}): the fields of data replace or extend the
\* stored ones; a missing document is created with the fields of data only.
SetDocMerge(d, data) ==
  [f \in (DOMAIN data) \cup (IF d.exists THEN DOMAIN d ELSE {"exists"}) |->
     IF f = "exists" THEN TRUE
     ELSE IF f \in DOMAIN data THEN data[f] ELSE d[f]]

\* The record createExternal stores for a CSV row.
CreateExternalDoc(row) ==
  SetDoc([bid |-> row.bid, name |-> row.name, type |-> row.type,
          paymentStatus |-> row.paymentStatus,
          gateIn |-> FALSE, gateOut |-> FALSE, checkIn |-> FALSE,
          checkOut |-> FALSE, insideCampus |-> FALSE,
          status |-> "not arrived", lastTime |-> "",
          registrationDate |-> "timestamp"])

OnSpotDoc_GateOutTrue(bid, name) ==
  SetDoc([bid |-> bid, name |-> name, type |-> "on-the-spot",
          paymentStatus |-> "not paid",
          gateIn |-> FALSE, gateOut |-> TRUE, checkIn |-> FALSE,
          checkOut |-> FALSE, insideCampus |-> FALSE,
          status |-> "not arrived", lastTime |-> "",
          registrationDate |-> "timestamp"])

\* The record onSpotRegistration stores.
OnSpotDoc(bid, name) ==
  SetDoc([bid |-> bid, name |-> name, type |-> "on-the-spot",
          paymentStatus |-> "not paid",
          gateIn |-> FALSE, gateOut |-> FALSE, checkIn |-> FALSE,
          checkOut |-> FALSE, insideCampus |-> FALSE,
          status |-> "not arrived", lastTime |-> "",
          registrationDate |-> "timestamp"])

----------------------------------------------------------------------------
(* logAction *)

ActionLogEntry_UidForName(externalUid, action, volunteer) ==
  [externalUid |-> externalUid, action |-> action,
   volunteerName |-> volunteer.uid]

\* The entry logAction appends.
ActionLogEntry(externalUid, action, volunteer) ==
  [externalUid |-> externalUid, action |-> action,
   volunteerName |-> volunteer.name]

UpdateData_KeepsInsideCampus(action) ==
  CASE action = "gate-in"   -> [gateIn |-> TRUE]
    [] action = "check-in"  -> [checkIn |-> TRUE, insideCampus |-> TRUE]
    [] action = "check-out" -> [checkOut |-> TRUE]
    [] action = "gate-out"  -> [gateOut |-> FALSE, checkOut |-> FALSE,
                                gateIn |-> FALSE, checkIn |-> FALSE,
                                paymentStatus |-> "not paid"]
    [] action = "payment"   -> [paymentStatus |-> "paid"]

UpdateData_GateOutKeepsCheckIn(action) ==
  CASE action = "gate-in"   -> [gateIn |-> TRUE]
    [] action = "check-in"  -> [checkIn |-> TRUE, insideCampus |-> TRUE]
    [] action = "check-out" -> [checkOut |-> TRUE]
    [] action = "gate-out"  -> [gateOut |-> FALSE, checkOut |-> FALSE,
                                insideCampus |-> FALSE, gateIn |-> FALSE,
                                paymentStatus |-> "not paid"]
    [] action = "payment"   -> [paymentStatus |-> "paid"]

UpdateData_GateOutTrue(action) ==
  CASE action = "gate-in"   -> [gateIn |-> TRUE]
    [] action = "check-in"  -> [checkIn |-> TRUE, insideCampus |-> TRUE]
    [] action = "check-out" -> [checkOut |-> TRUE]
    [] action = "gate-out"  -> [gateOut |-> TRUE, checkOut |-> FALSE,
                                insideCampus |-> FALSE, gateIn |-> FALSE,
                                checkIn |-> FALSE,
                                paymentStatus |-> "not paid"]
    [] action = "payment"   -> [paymentStatus |-> "paid"]

UpdateData_CheckOutClearsInside(action) ==
  CASE action = "gate-in"   -> [gateIn |-> TRUE]
    [] action = "check-in"  -> [checkIn |-> TRUE, insideCampus |-> TRUE]
    [] action = "check-out" -> [checkOut |-> TRUE, insideCampus |-> FALSE]
    [] action = "gate-out"  -> [gateOut |-> FALSE, checkOut |-> FALSE,
                                insideCampus |-> FALSE, gateIn |-> FALSE,
                                checkIn |-> FALSE,
                                paymentStatus |-> "not paid"]
    [] action = "payment"   -> [paymentStatus |-> "paid"]

\* The fields logAction merges into the participant record.
UpdateData(action) ==
  CASE action = "gate-in"   -> [gateIn |-> TRUE]
    [] action = "check-in"  -> [checkIn |-> TRUE, insideCampus |-> TRUE]
    [] action = "check-out" -> [checkOut |-> TRUE]
    [] action = "gate-out"  -> [gateOut |-> FALSE, checkOut |-> FALSE,
                                insideCampus |-> FALSE, gateIn |-> FALSE,
                                checkIn |-> FALSE,
                                paymentStatus |-> "not paid"]
    [] action = "payment"   -> [paymentStatus |-> "paid"]

AddDoc_FixedId(coll, data) ==
  IF coll = << >> THEN <<data>> ELSE [coll EXCEPT ![Len(coll)] = data]

\* addDoc(collection, data): a new document under a new id.
AddDoc(coll, data) == Append(coll, data)

LogAction_PaymentToggles(ext, logs, externalUid, action, volunteer, logOk, updOk) ==
  [ actionLogs |->
      IF logOk
      THEN AddDoc(logs, ActionLogEntry(externalUid, action, volunteer))
      ELSE logs,
    externals |->
      IF logOk /\ updOk
      THEN [ext EXCEPT ![externalUid] =
              SetDocMerge(@, IF action = "payment"
                                /\ "paymentStatus" \in DOMAIN @
                                /\ @.paymentStatus = "paid"
                             THEN [paymentStatus |-> "not paid"]
                             ELSE UpdateData(action))]
      ELSE ext,
    threw |-> ~logOk ]

LogAction_RequiresPrevious(ext, logs, externalUid, action, volunteer, logOk, updOk) ==
  LET d == ext[externalUid]
      allowed ==
        /\ action = "check-in" => d.exists /\ "gateIn" \in DOMAIN d /\ d.gateIn
        /\ action = "check-out" =>
             d.exists /\ "checkIn" \in DOMAIN d /\ d.checkIn
        /\ action = "gate-out" =>
             d.exists /\ "checkOut" \in DOMAIN d /\ d.checkOut
  IN
  [ actionLogs |->
      IF logOk /\ allowed
      THEN AddDoc(logs, ActionLogEntry(externalUid, action, volunteer))
      ELSE logs,
    externals |->
      IF logOk /\ updOk /\ allowed
      THEN [ext EXCEPT ![externalUid] = SetDocMerge(@, UpdateData(action))]
      ELSE ext,
    threw |-> ~(logOk /\ allowed) ]

LogAction_ThrowsOnUpdateFailure(ext, logs, externalUid, action, volunteer, logOk, updOk) ==
  [ actionLogs |->
      IF logOk
      THEN AddDoc(logs, ActionLogEntry(externalUid, action, volunteer))
      ELSE logs,
    externals |->
      IF logOk /\ updOk
      THEN [ext EXCEPT ![externalUid] = SetDocMerge(@, UpdateData(action))]
      ELSE ext,
    threw |-> ~(logOk /\ updOk) ]

LogAction_UpdateFirst(ext, logs, externalUid, action, volunteer, logOk, updOk) ==
  [ actionLogs |->
      IF logOk
      THEN AddDoc(logs, ActionLogEntry(externalUid, action, volunteer))
      ELSE logs,
    externals |->
      IF updOk
      THEN [ext EXCEPT ![externalUid] = SetDocMerge(@, UpdateData(action))]
      ELSE ext,
    threw |-> ~logOk ]

LogAction_CheckInNeedsGateIn(ext, logs, externalUid, action, volunteer, logOk, updOk) ==
  LET d == ext[externalUid]
      allowed == action = "check-in" =>
                   d.exists /\ "gateIn" \in DOMAIN d /\ d.gateIn
  IN
  [ actionLogs |->
      IF logOk /\ allowed
      THEN AddDoc(logs, ActionLogEntry(externalUid, action, volunteer))
      ELSE logs,
    externals |->
      IF logOk /\ updOk /\ allowed
      THEN [ext EXCEPT ![externalUid] = SetDocMerge(@, UpdateData(action))]
      ELSE ext,
    threw |-> ~(logOk /\ allowed) ]

\* logAction(externalUid, action, volunteer) run on the store <<ext, logs>>.
\* logOk and updOk are the outcomes of its two writes: a failed addDoc is
\* thrown to the caller before the record is touched, a failed setDoc is
\* caught and only logged.
LogAction(ext, logs, externalUid, action, volunteer, logOk, updOk) ==
  [ actionLogs |->
      IF logOk
      THEN AddDoc(logs, ActionLogEntry(externalUid, action, volunteer))
      ELSE logs,
    externals |->
      IF logOk /\ updOk
      THEN [ext EXCEPT ![externalUid] = SetDocMerge(@, UpdateData(action))]
      ELSE ext,
    threw |-> ~logOk ]

\* updateExternalStatus(externalUid, status, lastTime): updateDoc fails on a
\* missing document; every failure is rethrown as "Failed to update status".
UpdateExternalStatus(ext, externalUid, status, lastTime, ok) ==
  LET done == ok /\ ext[externalUid].exists IN
  [ externals |->
      IF done
      THEN [ext EXCEPT ![externalUid] =
              SetDocMerge(@, [status |-> status, lastTime |-> lastTime])]
      ELSE ext,
    threw |-> ~done ]

\* getExternalByUid(uid): the stored document, or null (NoDoc).
GetExternalByUid(ext, uid) == IF uid \in DOMAIN ext THEN ext[uid] ELSE NoDoc

----------------------------------------------------------------------------
(* The service layer called directly, in any order *)

\* The participant records an import leaves behind.
ImportedStores ==
  { ext \in [Bids -> {NoDoc} \cup
        { CreateExternalDoc([bid |-> b, name |-> "N1", type |-> "participant",
                             paymentStatus |-> p])
          : b \in Bids, p \in PaymentValues }] :
      \A b \in Bids : ext[b].exists => ext[b].bid = b }

StoreInit(stores) ==
  /\ externals \in stores
  /\ usedBids =
       [exists |-> TRUE, usedBids |-> {b \in Bids : externals[b].exists}]
  /\ actionLogs = << >>
  /\ call = NoCall
  /\ reg = [p \in Procs |-> RegIdle]
  /\ regHist = NoRegHist
  /\ users = Profiles
  /\ accounts = {}
  /\ upload = NoUpload
  /\ gen = NoGen

\* An imported participant B1 and an identifier B2 nobody holds.
Init ==
  /\ StoreInit({ext \in ImportedStores :
                  ext["B1"].exists /\ ~ext["B2"].exists})
  /\ ruleset = "readme"
  /\ portal = [s \in Sessions |-> LoggedOut]

DoLogAction ==
  /\ Len(actionLogs) < MaxLog
  /\ \E b \in Bids, a \in ActionType, v \in Users, logOk, updOk \in BOOLEAN :
       LET r == LogAction(externals, actionLogs, b, a, v, logOk, updOk) IN
       /\ call' = [op |-> "logAction", externalUid |-> b, action |-> a,
                   volunteer |-> v, logOk |-> logOk, updOk |-> updOk,
                   threw |-> r.threw, before |-> externals[b],
                   logsBefore |-> actionLogs]
       /\ externals' = r.externals
       /\ actionLogs' = r.actionLogs
       /\ UNCHANGED <<usedBids, portal, regVars, rulesVars, upload, gen>>

Next == DoLogAction

Spec == Init /\ [][Next]_vars

----------------------------------------------------------------------------
(* Claims about logAction *)

\* The flag each advancing action sets.
FlagOf(action) ==
  CASE action = "gate-in" -> "gateIn"
    [] action = "check-in" -> "checkIn"
    [] action = "check-out" -> "checkOut"

CallCompleted == call.op = "logAction" /\ call.logOk /\ call.updOk

\* C1: after logAction for gate-in, check-in or check-out on an existing
\* participant completes with both writes succeeding, the participant's
\* corresponding flag is true and the call has appended exactly one log entry,
\* carrying the participant identifier, the action and the volunteer's name.
C1_AdvanceSetsFlagAndLogsOnce ==
  (/\ CallCompleted
   /\ call.action \in {"gate-in", "check-in", "check-out"}
   /\ call.before.exists)
  => /\ externals[call.externalUid].exists
     /\ FlagOf(call.action) \in DOMAIN externals[call.externalUid]
     /\ externals[call.externalUid][FlagOf(call.action)] = TRUE
     /\ Len(actionLogs) = Len(call.logsBefore) + 1
     /\ SubSeq(actionLogs, 1, Len(call.logsBefore)) = call.logsBefore
     /\ actionLogs[Len(actionLogs)].externalUid = call.externalUid
     /\ actionLogs[Len(actionLogs)].action = call.action
     /\ actionLogs[Len(actionLogs)].volunteerName = call.volunteer.name

C1_Witness ==
  /\ CallCompleted
  /\ call.action = "check-out"
  /\ call.before.exists
  /\ call.volunteer.name = "Ravi"
  /\ Len(actionLogs) = 2

\* C3: logAction with gate-out sets gateIn, checkIn, checkOut, gateOut and
\* insideCampus to false and paymentStatus to "not paid", whatever the
\* record held before.
C3_GateOutResetsAll ==
  (CallCompleted /\ call.action = "gate-out")
  => LET d == externals[call.externalUid] IN
     /\ d.exists
     /\ {"gateIn", "checkIn", "checkOut", "gateOut", "insideCampus",
         "paymentStatus"} \subseteq DOMAIN d
     /\ d.gateIn = FALSE /\ d.checkIn = FALSE /\ d.checkOut = FALSE
     /\ d.gateOut = FALSE /\ d.insideCampus = FALSE
     /\ d.paymentStatus = "not paid"

C3_Witness ==
  /\ CallCompleted
  /\ call.action = "gate-out"
  /\ Flag(call.before, "insideCampus")
  /\ Str(call.before, "paymentStatus") = "paid"

----------------------------------------------------------------------------
(* createExternal and onSpotRegistration *)

MaxRegCalls == 2

RegistrationFailed == "Registration failed. Please try again."

RegName(p) == IF p = "p1" THEN "W1" ELSE "W2"

\* updateDoc(usedBids/bids, {usedBids: arrayUnion(bid)}); fails on a missing
\* document.
ArrayUnionBid(used, bid, ok) ==
  LET done == ok /\ used.exists IN
  [ usedBids |-> IF done
                 THEN [used EXCEPT !.usedBids = @ \cup {bid}]
                 ELSE used,
    threw |-> ~done ]

\* A row without an ID column value: doc(db, "externals", "") is not a
\* document reference and throws.
EmptyBid == ""

CreateExternal_KeepsExisting(ext, used, row, setOk, updOk) ==
  LET r == ArrayUnionBid(used, row.bid, updOk) IN
  IF ~setOk \/ row.bid = EmptyBid
  THEN [externals |-> ext, usedBids |-> used, threw |-> TRUE, wrote |-> FALSE]
  ELSE [externals |-> IF ext[row.bid].exists THEN ext
                      ELSE [ext EXCEPT ![row.bid] = CreateExternalDoc(row)],
        usedBids |-> r.usedBids, threw |-> r.threw, wrote |-> TRUE]

\* createExternal(row): the record write, then the used-identifier update;
\* the first failure is rethrown.
CreateExternal(ext, used, row, setOk, updOk) ==
  LET r == ArrayUnionBid(used, row.bid, updOk) IN
  IF ~setOk \/ row.bid = EmptyBid
  THEN [externals |-> ext, usedBids |-> used, threw |-> TRUE, wrote |-> FALSE]
  ELSE [externals |-> [ext EXCEPT ![row.bid] = CreateExternalDoc(row)],
        usedBids |-> r.usedBids, threw |-> r.threw, wrote |-> TRUE]

\* generateUniqueBid: the list it reads (empty when the document is missing)
\* and the test that ends its loop.
UsedBidsRead(used) == IF used.exists THEN used.usedBids ELSE {}

IsUnique_Always(list, bid) == TRUE

IsUnique(list, bid) == bid \notin list

OnSpotSetDoc_CreateOnly(ext, bid, name) ==
  IF ext[bid].exists THEN ext ELSE [ext EXCEPT ![bid] = OnSpotDoc(bid, name)]

\* onSpotRegistration's setDoc(doc(db, "externals", bid), external).
OnSpotSetDoc(ext, bid, name) == [ext EXCEPT ![bid] = OnSpotDoc(bid, name)]

\* onSpotRegistration is called.
RegStart(p) ==
  /\ reg[p].pc = "idle"
  /\ reg[p].calls < MaxRegCalls
  /\ reg' = [reg EXCEPT ![p] =
       [@ EXCEPT !.pc = "generate", !.bid = "", !.result = "",
                 !.startUsed = UsedBidsRead(usedBids),
                 !.startImported = regHist.imported,
                 !.calls = @ + 1]]
  /\ UNCHANGED <<storeVars, call, portal, regHist, rulesVars, upload, gen>>

\* One round of generateUniqueBid's loop: a random bid, one read of the list.
RegGenerate(p) ==
  /\ reg[p].pc = "generate"
  /\ \E b \in Bids :
       reg' = [reg EXCEPT ![p] =
         IF IsUnique(UsedBidsRead(usedBids), b)
         THEN [@ EXCEPT !.pc = "setDoc", !.bid = b,
                        !.docAtRead = externals[b].exists]
         ELSE [@ EXCEPT !.bid = b]]
  /\ UNCHANGED <<storeVars, call, portal, regHist, rulesVars, upload, gen>>

\* await setDoc(...): a failure is rethrown as "Registration failed".
RegSetDoc(p, ok) ==
  /\ reg[p].pc = "setDoc"
  /\ IF ok
     THEN /\ externals' = OnSpotSetDoc(externals, reg[p].bid, RegName(p))
          /\ reg' = [reg EXCEPT ![p].pc = "updateDoc"]
          /\ regHist' = [regHist EXCEPT
               !.writes = Append(@, [proc |-> p, bid |-> reg[p].bid])]
     ELSE /\ reg' = [reg EXCEPT ![p].pc = "done",
                                ![p].result = RegistrationFailed]
          /\ UNCHANGED <<externals, regHist>>
  /\ UNCHANGED <<usedBids, actionLogs, call, portal, rulesVars, upload, gen>>

\* await updateDoc(usedBids...), then return bid.
RegUpdateDoc(p, ok) ==
  /\ reg[p].pc = "updateDoc"
  /\ LET r == ArrayUnionBid(usedBids, reg[p].bid, ok) IN
     /\ usedBids' = r.usedBids
     /\ reg' = [reg EXCEPT ![p].pc = "done",
                           ![p].result = IF r.threw THEN RegistrationFailed
                                         ELSE reg[p].bid]
     /\ regHist' = IF r.threw THEN regHist
                   ELSE [regHist EXCEPT !.handedOut =
                           Append(@, [bid |-> reg[p].bid, proc |-> p,
                                      startUsed |-> reg[p].startUsed,
                                      startImported |-> reg[p].startImported])]
  /\ UNCHANGED <<externals, actionLogs, call, portal, rulesVars, upload, gen>>

\* The caller has its answer and may register somebody else.
RegReturn(p) ==
  /\ reg[p].pc = "done"
  /\ reg[p].calls < MaxRegCalls
  /\ reg' = [reg EXCEPT ![p].pc = "idle"]
  /\ UNCHANGED <<storeVars, call, portal, regHist, rulesVars, upload, gen>>

\* createExternal(row) as one step.
Import(row, setOk, updOk) ==
  LET r == CreateExternal(externals, usedBids, row, setOk, updOk) IN
  /\ externals' = r.externals
  /\ usedBids' = r.usedBids
  /\ call' = [op |-> "createExternal", row |-> row, threw |-> r.threw,
              wrote |-> r.wrote]
  /\ regHist' = IF r.threw THEN regHist
                ELSE [regHist EXCEPT !.imported = @ \cup {row.bid}]
  /\ UNCHANGED <<actionLogs, portal, reg, rulesVars, upload, gen>>

CSVRows ==
  { [bid |-> b, name |-> "N1", type |-> "participant", paymentStatus |-> p]
    : b \in Bids, p \in PaymentValues }

----------------------------------------------------------------------------
(* uploadCSVData *)

MaxRows == 2

\* The parsed lines of the file: ID and Name are required columns, an empty
\* cell reads as "".
RawCSVData ==
  { [ID |-> i, Name |-> n, PaymentStatus |-> "paid"]
    : i \in Bids \cup {""}, n \in {"N1", ""} }

\* x || d
OrDefault(x, d) == IF x = "" THEN d ELSE x

\* CSVUpload.handleUpload's map from a parsed line to a CSVRow.
HandleUploadRow(raw) ==
  [bid |-> OrDefault(raw.ID, ""), name |-> OrDefault(raw.Name, ""),
   type |-> "participant",
   paymentStatus |-> OrDefault(raw.PaymentStatus, "not paid")]

\* handleUpload keeps the lines that have some non-empty value.
UploadRows ==
  { HandleUploadRow(raw) :
      raw \in { r \in RawCSVData :
                  \E f \in DOMAIN r : r[f] # "" } }

\* A row that lacks one of the required columns of the file.
MissingRequired(row) == row.bid = "" \/ row.name = ""

RowSeqs == UNION { [1..n -> UploadRows] : n \in 0..MaxRows }

UploadCSVDataAfterRow_AbortOnError(u, threw, wrote) ==
  [u EXCEPT !.idx = IF threw THEN Len(u.rows) + 1 ELSE @ + 1,
            !.successCount = IF threw THEN @ ELSE @ + 1,
            !.results = Append(@, IF threw THEN "failed" ELSE "ok"),
            !.writes = IF wrote THEN @ + 1 ELSE @]

\* The loop body of uploadCSVData after createExternal(row) has returned or
\* thrown: the count grows only when it returned, the loop goes on either way.
UploadCSVDataAfterRow(u, threw, wrote) ==
  [u EXCEPT !.idx = @ + 1,
            !.successCount = IF threw THEN @ ELSE @ + 1,
            !.results = Append(@, IF threw THEN "failed" ELSE "ok"),
            !.writes = IF wrote THEN @ + 1 ELSE @]

\* uploadCSVData(rows) is called.
UploadStart ==
  /\ upload.pc = "idle"
  /\ \E rows \in RowSeqs : upload' = [NoUpload EXCEPT !.pc = "loop", !.rows = rows]
  /\ UNCHANGED <<storeVars, call, portal, regVars, rulesVars, gen>>

\* One iteration: await createExternal(row) inside try/catch.
UploadRow ==
  /\ upload.pc = "loop"
  /\ upload.idx <= Len(upload.rows)
  /\ \E setOk, updOk \in BOOLEAN :
       LET row == upload.rows[upload.idx]
           r   == CreateExternal(externals, usedBids, row, setOk, updOk)
       IN
       /\ externals' = r.externals
       /\ usedBids' = r.usedBids
       /\ call' = [op |-> "createExternal", row |-> row, threw |-> r.threw,
                   wrote |-> r.wrote]
       /\ upload' = [UploadCSVDataAfterRow(upload, r.threw, r.wrote)
                       EXCEPT !.processed = Append(@, row)]
  /\ UNCHANGED <<actionLogs, portal, regVars, rulesVars, gen>>

\* return successCount.
UploadReturn ==
  /\ upload.pc = "loop"
  /\ upload.idx > Len(upload.rows)
  /\ upload' = [upload EXCEPT !.pc = "returned", !.returned = upload.successCount]
  /\ UNCHANGED <<storeVars, call, portal, regVars, rulesVars, gen>>

UploadInit ==
  /\ StoreInit(ImportedStores)
  /\ ruleset = "readme"
  /\ portal = [s \in Sessions |-> LoggedOut]

UploadNext == UploadStart \/ UploadRow \/ UploadReturn

SpecUpload == UploadInit /\ [][UploadNext]_vars

OkRows == {i \in 1..Len(upload.results) : upload.results[i] = "ok"}

\* C10: uploadCSVData processes every row in input order; a row whose
\* createExternal fails is skipped without stopping the rows after it, and
\* the number returned is the number of rows for which createExternal
\* completed without error, hence at most the number of rows and at most the
\* number of participant record writes.
C10_UploadCountsCompletedRows ==
  /\ upload.pc = "loop" =>
       /\ Len(upload.results) = Len(upload.processed)
       /\ upload.processed = SubSeq(upload.rows, 1, Len(upload.processed))
  /\ upload.pc = "returned" =>
       /\ upload.processed = upload.rows
       /\ Len(upload.results) = Len(upload.rows)
       /\ upload.returned = Cardinality(OkRows)
       /\ upload.returned <= Len(upload.rows)
       /\ upload.returned <= upload.writes

\* The first row failed after its record was written, the second was
\* imported, and 1 was returned.
C10_Witness ==
  /\ upload.pc = "returned"
  /\ upload.results = <<"failed", "ok">>
  /\ upload.returned = 1
  /\ upload.writes = 2

\* C11: a row of the upload that lacks a required field leaves no participant
\* record behind (createExternal writes nothing for it), and the upload still
\* hands every other row to createExternal.
C11_MissingFieldRowsRejected ==
  /\ (call.op = "createExternal" /\ MissingRequired(call.row)) => ~call.wrote
  /\ upload.pc = "returned" => upload.processed = upload.rows

----------------------------------------------------------------------------
(* Registrations one after the other, every write succeeding *)

EmptyStore == [b \in Bids |-> NoDoc]

RegInit ==
  /\ StoreInit({EmptyStore})
  /\ ruleset = "readme"
  /\ portal = [s \in Sessions |-> LoggedOut]

NoneRunning == \A q \in Procs : reg[q].pc \in {"idle", "done"}

SeqStart == \E p \in Procs : NoneRunning /\ RegStart(p)

SeqGenerate == \E p \in Procs : RegGenerate(p)

SeqSetDoc == \E p \in Procs : RegSetDoc(p, TRUE)

SeqUpdateDoc == \E p \in Procs : RegUpdateDoc(p, TRUE)

SeqReturn == \E p \in Procs : RegReturn(p)

SeqImport == NoneRunning /\ \E row \in CSVRows : Import(row, TRUE, TRUE)

RegSeqNext ==
  SeqStart \/ SeqGenerate \/ SeqSetDoc \/ SeqUpdateDoc \/ SeqReturn
  \/ SeqImport

SpecRegSeq == RegInit /\ [][RegSeqNext]_vars

----------------------------------------------------------------------------
(* Registrations that overlap, writes that may fail *)

ConcStart == \E p \in Procs : RegStart(p)

ConcGenerate == \E p \in Procs : RegGenerate(p)

ConcSetDoc == \E p \in Procs, ok \in BOOLEAN : RegSetDoc(p, ok)

ConcUpdateDoc == \E p \in Procs, ok \in BOOLEAN : RegUpdateDoc(p, ok)

ConcReturn == \E p \in Procs : RegReturn(p)

RegNext ==
  ConcStart \/ ConcGenerate \/ ConcSetDoc \/ ConcUpdateDoc \/ ConcReturn

SpecReg == RegInit /\ [][RegNext]_vars

----------------------------------------------------------------------------
(* Claims about the identifier allocator *)

HandedOut == regHist.handedOut

PairwiseDistinct ==
  \A i, j \in 1..Len(HandedOut) :
    i # j => HandedOut[i].bid # HandedOut[j].bid

NotRecordedAtStart ==
  \A i \in 1..Len(HandedOut) : HandedOut[i].bid \notin HandedOut[i].startUsed

WritesOf(b) ==
  {i \in 1..Len(regHist.writes) : regHist.writes[i].bid = b}

LastWriter(b) ==
  regHist.writes[CHOOSE i \in WritesOf(b) : \A j \in WritesOf(b) : j <= i].proc

\* C6: when two overlapping onSpotRegistration calls are handed the same
\* identifier, the later record write has replaced the earlier registrant's
\* record and both callers were told that identifier as their success.
C6_SameIdOverwrites ==
  \A p, q \in Procs :
    (/\ p # q
     /\ reg[p].pc = "done" /\ reg[q].pc = "done"
     /\ reg[p].result \in Bids /\ reg[q].result = reg[p].result)
    => LET b == reg[p].result IN
       /\ externals[b].exists
       /\ externals[b].name = RegName(LastWriter(b))
       /\ reg[p].bid = b /\ reg[q].bid = b
       /\ Cardinality({i \in 1..Len(HandedOut) : HandedOut[i].bid = b}) >= 2

\* Both calls read the list before either wrote, and both returned B1.
C6_Witness ==
  /\ reg["p1"].pc = "done" /\ reg["p2"].pc = "done"
  /\ reg["p1"].result = "B1" /\ reg["p2"].result = "B1"
  /\ ~reg["p1"].docAtRead /\ ~reg["p2"].docAtRead
  /\ Cardinality(WritesOf("B1")) = 2
  /\ LastWriter("B1") = "p1"
  /\ externals["B1"].name = "W1"

----------------------------------------------------------------------------
(* The portal: EntryExitPortal *)

MaxPortalLog == 8

Undefined == "undefined"

IsPaid(userData) ==
  Str(userData, "paymentStatus") = "paid" \/ Str(userData, "paymentStatus") = "Paid"

ButtonEnabled_CheckInUnguarded(userData, action) ==
  /\ userData.exists
  /\ CASE action = "gate-in"   -> ~Flag(userData, "gateIn")
       [] action = "payment"   -> ~IsPaid(userData)
       [] action = "check-in"  -> ~Flag(userData, "insideCampus")
       [] action = "check-out" ->
            ~(~Flag(userData, "insideCampus") \/ Flag(userData, "checkOut"))
       [] action = "gate-out"  ->
            ~(~Flag(userData, "checkOut") \/ Flag(userData, "gateOut"))

\* The disabled= expressions of the five action buttons, negated.  The
\* buttons are rendered only when a record is displayed.
ButtonEnabled(userData, action) ==
  /\ userData.exists
  /\ CASE action = "gate-in"   -> ~Flag(userData, "gateIn")
       [] action = "payment"   -> ~IsPaid(userData)
       [] action = "check-in"  ->
            ~(~Flag(userData, "gateIn") \/ Flag(userData, "insideCampus"))
       [] action = "check-out" ->
            ~(~Flag(userData, "insideCampus") \/ Flag(userData, "checkOut"))
       [] action = "gate-out"  ->
            ~(~Flag(userData, "checkOut") \/ Flag(userData, "gateOut"))

\* The status label handleAction writes after logAction.
NewStatus(userData, action) ==
  CASE action = "gate-in"   -> "gated in"
    [] action = "check-in"  -> "checked in"
    [] action = "check-out" -> "checked out"
    [] action = "gate-out"  -> "gate out"
    [] OTHER                -> Str(userData, "status")

\* The input field: onChange sets uid to the upper-cased text.
SetUid(s, b) ==
  /\ portal[s].loggedInUser # NoUser
  /\ portal[s].uid # b
  /\ portal' = [portal EXCEPT ![s].uid = b]
  /\ UNCHANGED <<storeVars, call, regVars, rulesVars, upload, gen>>

\* fetchUserData for identifier uid: a found record is displayed and the
\* message cleared; otherwise the old record stays with "User not found".
FetchUserData(p, uid) ==
  LET data == GetExternalByUid(externals, uid) IN
  IF data.exists
  THEN [p EXCEPT !.userData = data, !.status = ""]
  ELSE [p EXCEPT !.status = "User not found"]

\* The Search button.
Search(s) ==
  /\ portal[s].loggedInUser # NoUser
  /\ portal[s].refetch = ""
  /\ portal' = [portal EXCEPT ![s] = FetchUserData(@, @.uid)]
  /\ UNCHANGED <<storeVars, call, regVars, rulesVars, upload, gen>>

\* handleAction(action) from the click to the end of its finally block, whose
\* fetchUserData is started but not awaited.  The three parameters are the
\* outcomes of the log append, the record merge and the status update.
\* handleAction passes no lastTime to updateExternalStatus.  The identifier
\* used is the input field's (uid), taken here from the stored identifiers.
HandleAction(s, action, logOk, updOk, statusOk) ==
  LET p  == portal[s]
      r1 == LogAction(externals, actionLogs, p.uid, action, p.loggedInUser,
                      logOk, updOk)
      r2 == IF r1.threw
            THEN [externals |-> r1.externals, threw |-> TRUE]
            ELSE UpdateExternalStatus(r1.externals, p.uid,
                                      NewStatus(p.userData, action),
                                      Undefined, statusOk)
  IN
  /\ p.loggedInUser # NoUser /\ p.userData.exists
  /\ p.uid \in Bids
  /\ ButtonEnabled(p.userData, action)
  /\ call' = [op |-> "handleAction", session |-> s, externalUid |-> p.uid,
              action |-> action, volunteer |-> p.loggedInUser,
              logOk |-> logOk, updOk |-> updOk, statusOk |-> statusOk,
              threw |-> r2.threw, userData |-> p.userData,
              before |-> externals[p.uid], logsBefore |-> actionLogs]
  /\ actionLogs' = r1.actionLogs
  /\ externals' = r2.externals
  /\ portal' = [portal EXCEPT
       ![s].status = IF r2.threw THEN "Action failed" ELSE @,
       ![s].loading = {},
       ![s].refetch = p.uid]
  /\ UNCHANGED <<usedBids, regVars, rulesVars, upload, gen>>

\* The fetchUserData started by handleAction's finally block completes.
Refetch(s) ==
  /\ portal[s].refetch # ""
  /\ portal' = [portal EXCEPT
       ![s] = [FetchUserData(@, @.refetch) EXCEPT !.refetch = ""]]
  /\ UNCHANGED <<storeVars, call, regVars, rulesVars, upload, gen>>

\* The displayed copy is the stored record of the identifier in the input
\* field, and no fetch is outstanding.
Fresh(s) ==
  /\ portal[s].refetch = ""
  /\ portal[s].uid \in Bids
  /\ portal[s].userData = externals[portal[s].uid]

----------------------------------------------------------------------------
(* One portal session used sequentially: every action is submitted from a  *)
(* freshly fetched copy of the record and every write succeeds.            *)

LoggedIn(u) == [LoggedOut EXCEPT !.loggedInUser = u]

PortalInit ==
  /\ StoreInit(ImportedStores)
  /\ ruleset = "readme"
  /\ \E u \in Users :
       portal = [s \in Sessions |-> IF s = "s1" THEN LoggedIn(u) ELSE LoggedOut]

PortalSetUid == \E b \in Bids : SetUid("s1", b)

PortalSearch == Search("s1")

PortalAction ==
  /\ Fresh("s1")
  /\ Len(actionLogs) < MaxPortalLog
  /\ \E a \in ActionType : HandleAction("s1", a, TRUE, TRUE, TRUE)

PortalRefetch == Refetch("s1")

PortalNext == PortalSetUid \/ PortalSearch \/ PortalAction \/ PortalRefetch

SpecPortal == PortalInit /\ [][PortalNext]_vars

----------------------------------------------------------------------------
(* Claims about the sequential portal *)

\* C2: with actions issued only through buttons enabled for a freshly fetched
\* copy (one session, one action at a time, every write succeeding), every
\* participant record satisfies checkIn => gateIn and checkOut => checkIn.
C2_FlagsAdvanceInOrder ==
  \A b \in Bids :
    /\ Flag(externals[b], "checkIn") => Flag(externals[b], "gateIn")
    /\ Flag(externals[b], "checkOut") => Flag(externals[b], "checkIn")

C2_Witness ==
  \E b \in Bids :
    /\ Flag(externals[b], "gateIn")
    /\ Flag(externals[b], "checkIn")
    /\ Flag(externals[b], "checkOut")

\* C4: fee verification before entry: a participant whose paymentStatus is
\* not paid is never gated in through the portal.
C4_FeeVerifiedBeforeEntry ==
  \A b \in Bids : Flag(externals[b], "gateIn") => IsPaid(externals[b])

FlagNames == {"gateIn", "gateOut", "checkIn", "checkOut", "insideCampus"}

Flags(d) == [f \in FlagNames |-> Flag(d, f)]

GateOutCount(b) ==
  Cardinality({i \in 1..Len(actionLogs) :
                 /\ actionLogs[i].externalUid = b
                 /\ actionLogs[i].action = "gate-out"})

----------------------------------------------------------------------------
(* The access rules *)

MaxRulesLog == 2

\* get(/databases/.../users/$(request.auth.uid)).data.role == 'admin'; the
\* lookup of a missing profile is an error, which denies.
IsAdmin(profiles, auth) ==
  /\ auth # Anonymous
  /\ auth \in DOMAIN profiles
  /\ profiles[auth].exists
  /\ profiles[auth].role = "admin"

\* README.md: the rules the documentation tells the operator to deploy.
\* method is read, create, update or delete; data is request.resource.data.
ReadmeRules(profiles, auth, coll, method, id, data) ==
  CASE coll = "users" ->
         \/ method = "read" /\ auth # Anonymous
         \/ method \in {"create", "update", "delete"}
              /\ auth # Anonymous /\ auth = id
    [] coll = "externals" ->
         \/ method = "read" /\ auth # Anonymous
         \/ method \in {"create", "update", "delete"}
              /\ IsAdmin(profiles, auth)
    [] coll = "actionLogs" ->
         \/ method = "read" /\ IsAdmin(profiles, auth)
         \/ method = "create" /\ auth # Anonymous

FileRules_CreateByType(profiles, auth, coll, method, id, data) ==
  CASE coll = "users" ->
         \/ method = "read"
         \/ method \in {"create", "update", "delete"}
              /\ auth # Anonymous /\ auth = id
    [] coll = "externals" ->
         \/ method = "read"
         \/ method = "create"
              /\ "type" \in DOMAIN data
         \/ method \in {"create", "update", "delete"}
              /\ IsAdmin(profiles, auth)
    [] coll = "actionLogs" ->
         \/ method = "read" /\ IsAdmin(profiles, auth)
         \/ method = "create" /\ auth # Anonymous

\* firestore.rules.  A condition that reads a missing field is an error,
\* which makes that allow statement deny.
FileRules(profiles, auth, coll, method, id, data) ==
  CASE coll = "users" ->
         \/ method = "read"
         \/ method \in {"create", "update", "delete"}
              /\ auth # Anonymous /\ auth = id
    [] coll = "externals" ->
         \/ method = "read"
         \/ method = "create"
              /\ "type" \in DOMAIN data /\ data.type = "on-the-spot"
              /\ "feePaid" \in DOMAIN data /\ data.feePaid = FALSE
              /\ "registrationDate" \in DOMAIN data
              /\ data.registrationDate = "timestamp"
         \/ method \in {"create", "update", "delete"}
              /\ IsAdmin(profiles, auth)
    [] coll = "actionLogs" ->
         \/ method = "read" /\ IsAdmin(profiles, auth)
         \/ method = "create" /\ auth # Anonymous

Allowed(rules, profiles, auth, coll, method, id, data) ==
  IF rules = "readme"
  THEN ReadmeRules(profiles, auth, coll, method, id, data)
  ELSE FileRules(profiles, auth, coll, method, id, data)

\* The method a set (with or without merge) on a document amounts to.
SetMethod(d) == IF d.exists THEN "update" ELSE "create"

\* handleAction by a signed-in session, each write decided by the rules.
HandleActionUnderRules(s, action) ==
  LET p      == portal[s]
      auth   == p.loggedInUser.uid
      d      == externals[p.uid]
      merged == SetDocMerge(d, UpdateData(action))
      logOk  == Allowed(ruleset, users, auth, "actionLogs", "create", "new",
                        ActionLogEntry(p.uid, action, p.loggedInUser))
      updOk  == Allowed(ruleset, users, auth, "externals", SetMethod(d),
                        p.uid, merged)
      after  == IF updOk THEN merged ELSE d
      stOk   == Allowed(ruleset, users, auth, "externals", "update", p.uid,
                        SetDocMerge(after,
                          [status |-> NewStatus(p.userData, action),
                           lastTime |-> Undefined]))
  IN HandleAction(s, action, logOk, updOk, stOk)

----------------------------------------------------------------------------
(* The portal under the access rules *)

RulesInit ==
  /\ StoreInit(ImportedStores)
  /\ ruleset \in Rulesets
  /\ \E u \in Users :
       portal = [s \in Sessions |-> IF s = "s1" THEN LoggedIn(u) ELSE LoggedOut]

RulesSetUid == \E b \in Bids : SetUid("s1", b)

RulesSearch == Search("s1")

RulesAction ==
  /\ Fresh("s1")
  /\ Len(actionLogs) < MaxRulesLog
  /\ \E a \in ActionType : HandleActionUnderRules("s1", a)

RulesRefetch == Refetch("s1")

RulesNext == RulesSetUid \/ RulesSearch \/ RulesAction \/ RulesRefetch

SpecRules == RulesInit /\ [][RulesNext]_vars

\* C7: a logged-in volunteer can carry a participant through gate-in,
\* check-in, check-out and gate-out under the documented rules: each action
\* appends a log entry and updates the participant record, and the portal
\* reports no failure.
C7_VolunteerCanOperate ==
  (/\ call.op = "handleAction"
   /\ call.volunteer.role = "volunteer"
   /\ call.action \in {"gate-in", "check-in", "check-out", "gate-out"})
  => /\ ~call.threw
     /\ actionLogs =
          Append(call.logsBefore,
                 ActionLogEntry(call.externalUid, call.action, call.volunteer))
     /\ externals[call.externalUid] =
          SetDocMerge(SetDocMerge(call.before, UpdateData(call.action)),
                      [status |-> NewStatus(call.userData, call.action),
                       lastTime |-> Undefined])

----------------------------------------------------------------------------
(* Writes sent straight to the store by any client *)

\* The documents a client may send for a participant record: the three
\* fields the create rule reads, and the record onSpotRegistration sends.
RequestDocs ==
  { SetDoc([type |-> t, feePaid |-> f, registrationDate |-> "timestamp"])
      : t \in {"on-the-spot", "participant"}, f \in BOOLEAN }
  \cup {OnSpotDoc("B1", "W1")}

RemoveAt(seq, i) == SubSeq(seq, 1, i - 1) \o SubSeq(seq, i + 1, Len(seq))

\* A write on externals/id: op is set, update or delete.
ExternalsRequest(auth, op, id, data) ==
  LET d      == externals[id]
      method == CASE op = "set" -> SetMethod(d)
                  [] op = "update" -> "update"
                  [] op = "delete" -> "delete"
      new    == CASE op = "set" -> data
                  [] op = "update" -> SetDocMerge(d, data)
                  [] op = "delete" -> NoDoc
      ok     == /\ Allowed(ruleset, users, auth, "externals", method, id,
                           IF op = "delete" THEN d ELSE new)
                /\ (op = "update" => d.exists)
  IN
  /\ externals' = IF ok THEN [externals EXCEPT ![id] = new] ELSE externals
  /\ call' = [op |-> "request", coll |-> "externals", auth |-> auth,
              method |-> method, id |-> id, data |-> data]
  /\ UNCHANGED <<usedBids, actionLogs, portal, regVars, rulesVars, upload, gen>>

\* A write on the action log: addDoc, or an update or delete of entry i.
ActionLogsRequest(auth, method, i, entry) ==
  LET ok == Allowed(ruleset, users, auth, "actionLogs", method, i, entry) IN
  /\ method = "create" => Len(actionLogs) < MaxRulesLog
  /\ method \in {"update", "delete"} => i \in 1..Len(actionLogs)
  /\ actionLogs' =
       IF ~ok THEN actionLogs
       ELSE CASE method = "create" -> Append(actionLogs, entry)
              [] method = "update" -> [actionLogs EXCEPT ![i] = entry]
              [] method = "delete" -> RemoveAt(actionLogs, i)
  /\ call' = [op |-> "request", coll |-> "actionLogs", auth |-> auth,
              method |-> method, id |-> i, data |-> entry]
  /\ UNCHANGED <<externals, usedBids, portal, regVars, rulesVars, upload, gen>>

AccessInit ==
  /\ StoreInit({ext \in ImportedStores :
                  ext["B1"].exists /\ ~ext["B2"].exists})
  /\ ruleset \in Rulesets
  /\ portal = [s \in Sessions |-> LoggedOut]

ClientExternalsRequest ==
  \E auth \in AuthUids \cup {Anonymous}, op \in {"set", "update", "delete"},
     data \in RequestDocs :
    ExternalsRequest(auth, op, "B1", data)

ClientActionLogsRequest ==
  \E auth \in AuthUids \cup {Anonymous},
     method \in {"create", "update", "delete"}, i \in 1..MaxRulesLog,
     a \in {"gate-in", "payment"} :
    ActionLogsRequest(auth, method, i,
                      ActionLogEntry("B1", a, [name |-> "client"]))

AccessNext == ClientExternalsRequest \/ ClientActionLogsRequest

SpecAccess == AccessInit /\ [][AccessNext]_vars

----------------------------------------------------------------------------
(* generateUniqueBid *)

\* const charset = "ABCDEFGHIJKLMNOPQRSTUVWXYZ23456789", one character each.
Charset ==
  <<"A", "B", "C", "D", "E", "F", "G", "H", "I", "J", "K", "L", "M", "N",
    "O", "P", "Q", "R", "S", "T", "U", "V", "W", "X", "Y", "Z",
    "2", "3", "4", "5", "6", "7", "8", "9">>

\* Array.from({ length: 4 }, ...)
BidLength == 4

\* "Excludes confusing characters (O, 0, I, 1)"
ConfusingChars == {"O", "0", "I", "1"}

\* .join("")
RECURSIVE Join(_)
Join(chars) == IF chars = << >> THEN "" ELSE Head(chars) \o Join(Tail(chars))

\* generateUniqueBid() is called.
GenStart ==
  /\ gen.pc = "idle"
  /\ gen' = [gen EXCEPT !.pc = "draw"]
  /\ UNCHANGED <<storeVars, call, portal, regVars, rulesVars, upload>>

\* Values of Math.random(), in hundredths: they select A, I, O, 2 and 9.
RandomValues == {0, 25, 42, 77, 99}

\* charset[Math.floor(Math.random() * charset.length)]; positions in a string
\* count from 0, those of a sequence from 1.
RandomChar(r) == Charset[((r * Len(Charset)) \div 100) + 1]

\* One position of the bid is drawn.
GenDraw ==
  /\ gen.pc = "draw"
  /\ \E r \in RandomValues :
       LET chars == Append(gen.chars, RandomChar(r)) IN
       gen' = IF Len(chars) = BidLength
              THEN [gen EXCEPT !.pc = "read", !.chars = chars,
                               !.bid = Join(chars)]
              ELSE [gen EXCEPT !.chars = chars]
  /\ UNCHANGED <<storeVars, call, portal, regVars, rulesVars, upload>>

\* The list is read; a bid found in it starts another round, any other bid
\* ends the loop and is returned.
GenRead ==
  /\ gen.pc = "read"
  /\ gen' = IF IsUnique(UsedBidsRead(usedBids), gen.bid)
            THEN [gen EXCEPT !.pc = "returned", !.returned = gen.bid]
            ELSE [gen EXCEPT !.pc = "draw", !.chars = << >>]
  /\ UNCHANGED <<storeVars, call, portal, regVars, rulesVars, upload>>

\* One identifier is on the list already.
GenInit ==
  /\ externals = EmptyStore
  /\ usedBids = [exists |-> TRUE, usedBids |-> {"AA22"}]
  /\ actionLogs = << >>
  /\ call = NoCall
  /\ reg = [p \in Procs |-> RegIdle]
  /\ regHist = NoRegHist
  /\ users = Profiles
  /\ accounts = {}
  /\ upload = NoUpload
  /\ gen = NoGen
  /\ ruleset = "readme"
  /\ portal = [s \in Sessions |-> LoggedOut]

GenNext == GenStart \/ GenDraw \/ GenRead

SpecBid == GenInit /\ [][GenNext]_vars

\* C12: every identifier generateUniqueBid returns has exactly 4 characters
\* and none of them is O, 0, I or 1.
C12_BidHasFourSafeChars ==
  gen.pc = "returned" =>
    /\ Len(gen.chars) = 4
    /\ gen.returned = Join(gen.chars)
    /\ \A i \in 1..Len(gen.chars) : gen.chars[i] \notin ConfusingChars

----------------------------------------------------------------------------
(* Every writing operation of the service layer, in any order *)

MaxOpsLog == 2

\* The participant the operations are called for.
OpsBids == {"B1"}

\* logAction by one volunteer, any outcome of its two writes.
OpsLogAction ==
  /\ Len(actionLogs) < MaxOpsLog
  /\ \E b \in OpsBids, a \in ActionType, logOk, updOk \in BOOLEAN :
       LET v == CHOOSE u \in Users : u.role = "volunteer"
           r == LogAction(externals, actionLogs, b, a, v, logOk, updOk)
       IN
       /\ call' = [op |-> "logAction", logOk |-> logOk,
                   logsBefore |-> actionLogs, externalUid |-> b,
                   action |-> a, wrote |-> logOk /\ updOk]
       /\ externals' = r.externals
       /\ actionLogs' = r.actionLogs
       /\ UNCHANGED <<usedBids, portal, regVars, rulesVars, upload, gen>>

\* updateExternalStatus called directly.
OpsUpdateStatus ==
  \E b \in OpsBids, st \in StatusValues, ok \in BOOLEAN :
    LET r == UpdateExternalStatus(externals, b, st, "time", ok) IN
    /\ call' = [op |-> "updateExternalStatus", threw |-> r.threw]
    /\ externals' = r.externals
    /\ UNCHANGED <<usedBids, actionLogs, portal, regVars, rulesVars, upload,
                   gen>>

\* createExternal called directly.
OpsImport ==
  \E row \in {r \in CSVRows : r.bid \in OpsBids}, setOk, updOk \in BOOLEAN :
    LET r == CreateExternal(externals, usedBids, row, setOk, updOk) IN
    /\ externals' = r.externals
    /\ usedBids' = r.usedBids
    /\ call' = [op |-> "createExternal", threw |-> r.threw, row |-> row,
                wrote |-> r.wrote, before |-> externals[row.bid]]
    /\ UNCHANGED <<actionLogs, portal, regVars, rulesVars, upload, gen>>

\* onSpotRegistration as one step: a bid that is not on the list, the record,
\* the list.
OpsRegister ==
  \E b \in Bids, setOk, updOk \in BOOLEAN :
    /\ IsUnique(UsedBidsRead(usedBids), b)
    /\ externals' = IF setOk THEN OnSpotSetDoc(externals, b, RegName("p1"))
                    ELSE externals
    /\ usedBids' = IF setOk THEN ArrayUnionBid(usedBids, b, updOk).usedBids
                   ELSE usedBids
    /\ call' = [op |-> "onSpotRegistration", threw |-> ~(setOk /\ updOk)]
    /\ UNCHANGED <<actionLogs, portal, regVars, rulesVars, upload, gen>>

\* getActionLogs(): every entry, as stored.
OpsGetActionLogs ==
  /\ call' = [op |-> "getActionLogs", result |-> actionLogs]
  /\ UNCHANGED <<storeVars, portal, regVars, rulesVars, upload, gen>>

OpsNext ==
  OpsLogAction \/ OpsUpdateStatus \/ OpsImport \/ OpsRegister
  \/ OpsGetActionLogs

SpecOps == Init /\ [][OpsNext]_vars

\* C13: the action log is append-only.  Every step of every operation keeps
\* the entries there were, unchanged and in place; a logAction call whose log
\* write succeeds adds exactly one entry, and getActionLogs returns the log
\* as stored.
C13_LogIsAppendOnly ==
  [][/\ Len(actionLogs') >= Len(actionLogs)
     /\ SubSeq(actionLogs', 1, Len(actionLogs)) = actionLogs
     /\ (call' # call /\ call'.op = "logAction" /\ call'.logOk)
          => Len(actionLogs') = Len(actionLogs) + 1
     /\ (call' # call /\ call'.op = "getActionLogs")
          => call'.result = actionLogs']_vars

\* Two entries are in the log and an operation other than logAction has run
\* since.
C13_Witness ==
  /\ Len(actionLogs) >= 2
  /\ call.op \in {"updateExternalStatus", "createExternal",
                 "onSpotRegistration"}

----------------------------------------------------------------------------
(* Claims about repeated and unguarded logAction calls *)

\* C14: when a logAction call whose two writes succeeded is followed by a
\* call for the same participant and the same action whose two writes succeed
\* as well, the second call leaves the participant records as they were
\* (every flag, the payment status) and the log holds two more entries than
\* before the first call, both for that participant and action.
C14_RepeatLogsTwiceChangesNothing ==
  [][(/\ CallCompleted
      /\ call' # call
      /\ call'.op = "logAction" /\ call'.logOk /\ call'.updOk
      /\ call'.externalUid = call.externalUid
      /\ call'.action = call.action)
     => /\ externals' = externals
        /\ Len(actionLogs') = Len(call.logsBefore) + 2
        /\ SubSeq(actionLogs', 1, Len(call.logsBefore)) = call.logsBefore
        /\ \A i \in {Len(actionLogs') - 1, Len(actionLogs')} :
             /\ actionLogs'[i].externalUid = call.externalUid
             /\ actionLogs'[i].action = call.action]_vars

\* A second payment in a row for the imported participant has completed.
C14_Witness ==
  /\ CallCompleted
  /\ call.action = "payment"
  /\ call.externalUid = "B1"
  /\ Len(call.logsBefore) = 1
  /\ call.logsBefore[1].action = "payment"
  /\ call.logsBefore[1].externalUid = "B1"
  /\ Str(call.before, "paymentStatus") = "paid"
  /\ Len(actionLogs) = 2

AdvancingActions == {"gate-in", "check-in", "check-out"}

\* A gate-in, check-in or check-out for an existing record has completed.
AdvanceCompleted ==
  CallCompleted /\ call.action \in AdvancingActions /\ call.before.exists

\* The record is before with the fields named in written set to true and
\* nothing else touched.
OnlyWritten(before, after, written) ==
  /\ DOMAIN after = DOMAIN before \cup written
  /\ \A f \in written : after[f] = TRUE
  /\ \A f \in DOMAIN before \ written : after[f] = before[f]

\* C15 as stated: a completed gate-in, check-in or check-out on an existing
\* record writes exactly one flag, that of the action, to true and leaves every
\* other field of the record as it was.
C15_AdvanceWritesOneFlag ==
  AdvanceCompleted =>
    OnlyWritten(call.before, externals[call.externalUid],
                {FlagOf(call.action)})

\* The flags each advancing action writes.
WrittenFlags(action) ==
  CASE action = "gate-in" -> {"gateIn"}
    [] action = "check-in" -> {"checkIn", "insideCampus"}
    [] action = "check-out" -> {"checkOut"}

\* C15 amended: a completed gate-in writes gateIn, a completed check-out
\* writes checkOut and a completed check-in writes both checkIn and
\* insideCampus to true; every other field of the record is left as it was.
C15_AdvanceWritesItsFlags ==
  AdvanceCompleted =>
    OnlyWritten(call.before, externals[call.externalUid],
                WrittenFlags(call.action))

\* A check-in has completed on a record that was not inside the campus.
C15_Witness ==
  /\ AdvanceCompleted
  /\ call.action = "check-in"
  /\ ~Flag(call.before, "insideCampus")
  /\ ~Flag(call.before, "checkIn")
  /\ Flag(externals[call.externalUid], "insideCampus")
  /\ Flag(externals[call.externalUid], "checkIn")

\* C16: logAction looks at no flag of the record.  Whatever the record was,
\* and also when there was none, a call whose writes succeed does not throw,
\* appends its log entry and writes the fields of its action: the flag of a
\* gate-in, check-in or check-out is true, the payment status after a payment
\* is "paid", and after a gate-out the flags are false and the payment status
\* "not paid".
C16_ActionsAppliedInAnyState ==
  CallCompleted =>
    LET after == externals[call.externalUid] IN
    /\ ~call.threw
    /\ after.exists
    /\ Len(actionLogs) = Len(call.logsBefore) + 1
    /\ actionLogs[Len(actionLogs)].action = call.action
    /\ actionLogs[Len(actionLogs)].externalUid = call.externalUid
    /\ call.action \in AdvancingActions => Flag(after, FlagOf(call.action))
    /\ call.action = "payment" => Str(after, "paymentStatus") = "paid"
    /\ call.action = "gate-out" =>
         /\ \A f \in {"gateIn", "gateOut", "checkIn", "checkOut",
                      "insideCampus"} : ~Flag(after, f)
         /\ Str(after, "paymentStatus") = "not paid"

\* A check-out has completed on a record with gateIn and checkIn false:
\* checkOut is true and the entry is in the log.
C16_Witness ==
  /\ CallCompleted
  /\ call.action = "check-out"
  /\ call.before.exists
  /\ ~Flag(call.before, "gateIn")
  /\ ~Flag(call.before, "checkIn")
  /\ ~Flag(call.before, "checkOut")
  /\ Flag(externals[call.externalUid], "checkOut")
  /\ Len(actionLogs) = Len(call.logsBefore) + 1
  /\ actionLogs[Len(actionLogs)].action = "check-out"

----------------------------------------------------------------------------
(* Claims about the status label *)

\* What each status label says about the flags of its record.
LabelMirrorsFlags(d) ==
  LET st == Str(d, "status") IN
  /\ st \in {"not arrived", "gate out"} =>
       \A f \in FlagNames : ~Flag(d, f)
  /\ st = "gated in" =>
       Flag(d, "gateIn") /\ ~Flag(d, "checkIn") /\ ~Flag(d, "checkOut")
  /\ st = "checked in" =>
       /\ Flag(d, "gateIn") /\ Flag(d, "checkIn") /\ Flag(d, "insideCampus")
       /\ ~Flag(d, "checkOut")
  /\ st = "checked out" =>
       Flag(d, "gateIn") /\ Flag(d, "checkIn") /\ Flag(d, "checkOut")

\* C17: in one session used sequentially through enabled buttons with every
\* write succeeding, the status label of every record agrees with its flags
\* after every completed action, each advancing action and the gate-out leave
\* their own label behind, and a payment leaves the label the record had.
C17_StatusLabelMirrorsFlags ==
  /\ \A b \in Bids : externals[b].exists => LabelMirrorsFlags(externals[b])
  /\ call.op = "handleAction" =>
       LET after == externals[call.externalUid] IN
       /\ Str(after, "status") \in StatusValues
       /\ call.action = "payment" =>
            Str(after, "status") = Str(call.before, "status")
       /\ call.action = "gate-in" => Str(after, "status") = "gated in"
       /\ call.action = "check-in" => Str(after, "status") = "checked in"
       /\ call.action = "check-out" => Str(after, "status") = "checked out"
       /\ call.action = "gate-out" => Str(after, "status") = "gate out"

----------------------------------------------------------------------------
(* One portal session, clicks at any moment: the buttons are those of the   *)
(* displayed copy, whether or not it has been fetched again since the last  *)
(* action and whether or not the input field was edited since.  Every write *)
(* succeeds.                                                                *)

MaxSessionLog == 3

SessionSetUid == \E b \in Bids : SetUid("s1", b)

SessionSearch == Search("s1")

SessionAction ==
  /\ Len(actionLogs) < MaxSessionLog
  /\ \E a \in ActionType : HandleAction("s1", a, TRUE, TRUE, TRUE)

SessionRefetch == Refetch("s1")

SessionNext ==
  SessionSetUid \/ SessionSearch \/ SessionAction \/ SessionRefetch

SpecSession == PortalInit /\ [][SessionNext]_vars

----------------------------------------------------------------------------
(* signIn and the login form *)

\* The error codes signInWithEmailAndPassword can fail with; the last one
\* stands for every code the switch does not name.
AuthErrorCodes ==
  {"auth/user-not-found", "auth/wrong-password", "auth/invalid-email",
   "auth/too-many-requests"}

\* An error as the catch block sees it: one of the platform's, carrying a
\* code, or the plain Error signIn throws itself.
CodedError(code) == [hasCode |-> TRUE, code |-> code]

PlainError == [hasCode |-> FALSE, code |-> ""]

\* The catch block of signIn: the message of the Error it throws.
SignInMessage(error) ==
  IF error.hasCode
  THEN CASE error.code = "auth/user-not-found" ->
              "No user found with this email."
         [] error.code = "auth/wrong-password" -> "Incorrect password."
         [] error.code = "auth/invalid-email" -> "Invalid email address."
         [] error.code = "permission-denied" ->
              "Access denied. Please contact an administrator."
         [] OTHER -> "Login failed. Please try again."
  ELSE "Login failed. Please try again."

\* signIn(email, password).  authCode is "" when the credentials
\* authenticate, as uid, and the error code otherwise; the profile read is
\* decided by the rules and, when allowed, succeeds or fails with readCode.
SignIn(rules, profiles, uid, authCode, readCode) ==
  LET error ==
        IF authCode # "" THEN CodedError(authCode)
        ELSE IF ~Allowed(rules, profiles, uid, "users", "read", uid, NoDoc)
        THEN CodedError("permission-denied")
        ELSE IF readCode # "" THEN CodedError(readCode)
        ELSE IF ~profiles[uid].exists THEN PlainError
        ELSE [hasCode |-> FALSE, code |-> "none"]
  IN
  IF error.code = "none"
  THEN [threw |-> FALSE, message |-> "",
        user |-> [uid |-> profiles[uid].uid, name |-> profiles[uid].name,
                  role |-> profiles[uid].role]]
  ELSE [threw |-> TRUE, message |-> SignInMessage(error), user |-> NoUser]

\* The profile collections: each user of the event with or without a profile
\* document; uN never has one.
ProfileStores ==
  { [a \in AuthUids |-> IF a \in S THEN Profiles[a] ELSE NoDoc]
    : S \in SUBSET {u.uid : u \in Users} }

\* Login.handleLogin in session s1: signIn, then onLogin(user), or the
\* status "Invalid credentials" on any error.
DoSignIn ==
  \E uid \in AuthUids, authCode \in AuthErrorCodes \cup {""},
     readCode \in {"", "unavailable"} :
    LET r == SignIn(ruleset, users, uid, authCode, readCode) IN
    /\ call' = [op |-> "signIn", uid |-> uid, authCode |-> authCode,
                readCode |-> readCode, threw |-> r.threw,
                message |-> r.message, user |-> r.user,
                loginStatus |-> IF r.threw THEN "Invalid credentials" ELSE ""]
    /\ portal' = IF r.threw THEN portal
                 ELSE [portal EXCEPT !["s1"].loggedInUser = r.user]
    /\ UNCHANGED <<storeVars, regVars, rulesVars, upload, gen>>

AuthInit ==
  /\ externals = EmptyStore
  /\ usedBids = [exists |-> TRUE, usedBids |-> {}]
  /\ actionLogs = << >>
  /\ call = NoCall
  /\ reg = [p \in Procs |-> RegIdle]
  /\ regHist = NoRegHist
  /\ users \in ProfileStores
  /\ accounts = {}
  /\ upload = NoUpload
  /\ gen = NoGen
  /\ ruleset \in Rulesets
  /\ portal = [s \in Sessions |-> LoggedOut]

AuthNext == DoSignIn

SpecAuth == AuthInit /\ [][AuthNext]_vars

\* C18: when the credentials authenticate and no profile document exists
\* for that user, signIn fails with the message "Access denied. Please
\* contact an administrator."
C18_MissingProfileIsAccessDenied ==
  (/\ call.op = "signIn"
   /\ call.authCode = ""
   /\ call.readCode = ""
   /\ ~users[call.uid].exists)
  => /\ call.threw
     /\ call.message = "Access denied. Please contact an administrator."

----------------------------------------------------------------------------
(* One portal session used sequentially, writes that may fail.  The click   *)
(* turns the action's loading indicator on before the first await; the rest *)
(* of handleAction follows as a second step.                                *)

MaxFaultyLog == 2

\* The click on an enabled button of a freshly fetched copy: handleAction up
\* to its first await.
BeginAction(s, action) ==
  /\ Fresh(s)
  /\ portal[s].loggedInUser # NoUser /\ portal[s].userData.exists
  /\ portal[s].loading = {}
  /\ ButtonEnabled(portal[s].userData, action)
  /\ portal' = [portal EXCEPT ![s].loading = {action}]
  /\ UNCHANGED <<storeVars, call, regVars, rulesVars, upload, gen>>

FaultySetUid == portal["s1"].loading = {} /\ \E b \in Bids : SetUid("s1", b)

FaultySearch == portal["s1"].loading = {} /\ Search("s1")

FaultyBegin ==
  /\ Len(actionLogs) < MaxFaultyLog
  /\ \E a \in ActionType : BeginAction("s1", a)

FaultyEnd ==
  \E a \in portal["s1"].loading, logOk, updOk, statusOk \in BOOLEAN :
    HandleAction("s1", a, logOk, updOk, statusOk)

FaultyRefetch == portal["s1"].loading = {} /\ Refetch("s1")

FaultyNext ==
  FaultySetUid \/ FaultySearch \/ FaultyBegin \/ FaultyEnd \/ FaultyRefetch

SpecFaulty == PortalInit /\ [][FaultyNext]_vars

\* The fields of a record other than the status label and its timestamp.
OwnFields(d) == DOMAIN d \ {"status", "lastTime"}

\* C19: logAction does not roll back.  When its log append succeeded and its
\* record update failed, the entry stays in the log, the flags and the
\* payment status of the record are as before, and logAction has not thrown:
\* handleAction has gone on to updateExternalStatus, so the new status label
\* is on the record when that write succeeded, and only that write decides
\* whether handleAction failed.
C19_NoRollbackOnUpdateFailure ==
  (call.op = "handleAction" /\ call.logOk /\ ~call.updOk) =>
    LET after == externals[call.externalUid] IN
    /\ Len(actionLogs) = Len(call.logsBefore) + 1
    /\ SubSeq(actionLogs, 1, Len(call.logsBefore)) = call.logsBefore
    /\ actionLogs[Len(actionLogs)].action = call.action
    /\ actionLogs[Len(actionLogs)].externalUid = call.externalUid
    /\ OwnFields(after) = OwnFields(call.before)
    /\ \A f \in OwnFields(after) : after[f] = call.before[f]
    /\ call.threw = ~call.statusOk
    /\ call.statusOk =>
         Str(after, "status") = NewStatus(call.userData, call.action)
    /\ ~call.statusOk => after = call.before

\* A gate-in whose record update failed: the entry is logged, gateIn is still
\* false and the label says "gated in".
C19_Witness ==
  /\ call.op = "handleAction" /\ call.logOk /\ ~call.updOk /\ call.statusOk
  /\ call.action = "gate-in"
  /\ ~Flag(externals[call.externalUid], "gateIn")
  /\ Str(call.before, "status") = "not arrived"
  /\ Str(externals[call.externalUid], "status") = "gated in"
  /\ Len(actionLogs) = Len(call.logsBefore) + 1

\* The step that ends a handleAction call of session s1: while an indicator
\* is on, nothing else happens in the session.
EndOfAction == portal["s1"].loading # {} /\ portal' # portal

\* C20: when the log append of logAction fails, handleAction leaves every
\* participant record and the log as they were (no flag, payment status or
\* status label is written), the message is "Action failed", no loading
\* indicator is on any more and the fetch of the record in the input field
\* has been started; that fetch then shows the stored record.
C20_LogFailureWritesNothing ==
  [][/\ (EndOfAction /\ ~call'.logOk) =>
          /\ call'.op = "handleAction" /\ call'.threw
          /\ externals' = externals
          /\ actionLogs' = actionLogs
          /\ portal'["s1"].status = "Action failed"
          /\ portal'["s1"].loading = {}
          /\ portal'["s1"].refetch = call'.externalUid
          /\ portal'["s1"].refetch = portal["s1"].uid
     /\ (portal["s1"].refetch # "" /\ portal'["s1"].refetch = ""
           /\ call.op = "handleAction" /\ ~call.logOk) =>
          portal'["s1"].userData = externals[call.externalUid]]_vars

\* A check-in whose log append failed has ended and its fetch has returned:
\* the record is as it was before the click.
C20_Witness ==
  /\ call.op = "handleAction" /\ ~call.logOk /\ call.updOk /\ call.statusOk
  /\ call.action = "check-in"
  /\ call.threw
  /\ externals[call.externalUid] = call.before
  /\ actionLogs = call.logsBefore
  /\ portal["s1"].loading = {}
  /\ portal["s1"].refetch = ""
  /\ portal["s1"].userData = call.before

----------------------------------------------------------------------------
(* handleAction in two steps: the click with logAction, and, after the      *)
(* await, updateExternalStatus with the finally block.  Other clicks, of    *)
(* this session or another, can come in between.                            *)

\* The click on an enabled button, the loading indicator, and logAction with
\* the uid of the input field.  When logAction throws, the catch and finally
\* blocks follow at once.
SubmitAction(s, action, logOk, updOk) ==
  LET p == portal[s]
      r == LogAction(externals, actionLogs, p.uid, action, p.loggedInUser,
                     logOk, updOk)
  IN
  /\ p.loggedInUser # NoUser /\ p.userData.exists
  /\ p.uid \in Bids
  /\ ButtonEnabled(p.userData, action)
  /\ call' = [op |-> "submitAction", session |-> s, externalUid |-> p.uid,
              action |-> action, logOk |-> logOk, updOk |-> updOk,
              threw |-> r.threw, userData |-> p.userData,
              before |-> externals[p.uid], logsBefore |-> actionLogs,
              inFlight |-> {p.flights[i].action : i \in DOMAIN p.flights}]
  /\ actionLogs' = r.actionLogs
  /\ externals' = r.externals
  /\ portal' = [portal EXCEPT ![s] =
       IF r.threw
       THEN [@ EXCEPT !.status = "Action failed", !.loading = {},
                      !.refetch = p.uid]
       ELSE [@ EXCEPT !.loading = @ \cup {action},
                      !.flights = Append(@,
                        [action |-> action, uid |-> p.uid,
                         newStatus |-> NewStatus(p.userData, action)])]]
  /\ UNCHANGED <<usedBids, regVars, rulesVars, upload, gen>>

\* The i-th call in flight goes on: updateExternalStatus(uid, newStatus),
\* then finally turns every indicator off and starts fetchUserData.
FinishAction(s, i, statusOk) ==
  LET p == portal[s]
      f == p.flights[i]
      r == UpdateExternalStatus(externals, f.uid, f.newStatus, Undefined,
                                statusOk)
  IN
  /\ i \in DOMAIN p.flights
  /\ call' = [op |-> "finishAction", session |-> s, externalUid |-> f.uid,
              action |-> f.action, statusOk |-> statusOk, threw |-> r.threw,
              newStatus |-> f.newStatus, before |-> externals[f.uid]]
  /\ externals' = r.externals
  /\ portal' = [portal EXCEPT ![s] =
       [@ EXCEPT !.status = IF r.threw THEN "Action failed" ELSE @,
                 !.loading = {},
                 !.refetch = f.uid,
                 !.flights = RemoveAt(@, i)]]
  /\ UNCHANGED <<usedBids, actionLogs, regVars, rulesVars, upload, gen>>

----------------------------------------------------------------------------
(* Two portal sessions on the same participant, every write succeeding;  *)
(* each session submits its next action when its last one has finished.  *)

MaxTwoLog == 5

\* The participant both sessions look up.
TwoBids == {"B1"}

\* The gate and desk actions, without the fee desk's.
CheckpointActions == ActionType \ {"payment"}

TwoInit ==
  /\ StoreInit({ext \in ImportedStores :
                  /\ ext["B1"].exists /\ ~ext["B2"].exists
                  /\ ext["B1"].paymentStatus = "paid"})
  /\ ruleset = "readme"
  /\ portal = [s \in Sessions |->
                 LoggedIn(CHOOSE u \in Users :
                            u.role = IF s = "s1" THEN "admin"
                                     ELSE "volunteer")]

TwoSetUid == \E s \in Sessions, b \in TwoBids : SetUid(s, b)

TwoSearch == \E s \in Sessions : Search(s)

TwoSubmit ==
  /\ Len(actionLogs) < MaxTwoLog
  /\ \E s \in Sessions, a \in CheckpointActions :
       /\ portal[s].flights = << >>
       /\ SubmitAction(s, a, TRUE, TRUE)

TwoFinish ==
  \E s \in Sessions : \E i \in DOMAIN portal[s].flights :
    FinishAction(s, i, TRUE)

TwoRefetch == \E s \in Sessions : Refetch(s)

TwoNext == TwoSetUid \/ TwoSearch \/ TwoSubmit \/ TwoFinish \/ TwoRefetch

SpecTwo == TwoInit /\ [][TwoNext]_vars

\* C21: the order of the checkpoints is guarded by the buttons of the
\* submitting session's copy and by nothing else: every submitted action was
\* enabled on that copy, and it is logged and written whatever the stored
\* record was.  (That a record with checkIn true and gateIn false is reached
\* from a stale copy is C21_Witness.)
C21_OrderGuardedOnlyByCopy ==
  call.op = "submitAction" =>
    /\ ButtonEnabled(call.userData, call.action)
    /\ ~call.threw
    /\ Len(actionLogs) = Len(call.logsBefore) + 1
    /\ call.action \in AdvancingActions =>
         Flag(externals[call.externalUid], FlagOf(call.action))

\* Session s2 has checked the participant in from a copy that still showed
\* gateIn true after a gate-out had reset the record: checkIn is true and
\* gateIn false in the store.
C21_Witness ==
  /\ call.op = "submitAction"
  /\ call.session = "s2"
  /\ call.action = "check-in"
  /\ Flag(call.userData, "gateIn")
  /\ ~Flag(call.before, "gateIn")
  /\ Flag(externals["B1"], "checkIn")
  /\ ~Flag(externals["B1"], "gateIn")

----------------------------------------------------------------------------
(* Claims about createExternal and the used-identifier list *)

C23_EveryRecordIsRecorded ==
  NoneRunning =>
    \A b \in Bids : externals[b].exists => b \in UsedBidsRead(usedBids)

----------------------------------------------------------------------------
(* Claims about one portal session *)

\* C24: an action submitted from the portal is applied to the participant
\* whose record is displayed: the identifier handed to logAction and
\* updateExternalStatus is the displayed record's identifier, also after the
\* identifier input has been edited, and no participant document exists
\* afterwards that did not exist before.
C24_ActionGoesToDisplayedRecord ==
  call.op = "handleAction" =>
    /\ call.externalUid = call.userData.bid
    /\ externals[call.externalUid].exists => call.before.exists

----------------------------------------------------------------------------
(* One portal session whose volunteer may press a button again before the
   earlier press has finished *)

MaxClickLog == 3

MaxClickFlights == 2

ClickInit ==
  /\ StoreInit({ext \in ImportedStores :
                  ext["B1"].exists /\ ~ext["B2"].exists})
  /\ ruleset = "readme"
  /\ \E u \in Users :
       portal = [s \in Sessions |-> IF s = "s1" THEN LoggedIn(u) ELSE LoggedOut]

ClickSubmit ==
  /\ Len(actionLogs) < MaxClickLog
  /\ Len(portal["s1"].flights) < MaxClickFlights
  /\ \E a \in ActionType : SubmitAction("s1", a, TRUE, TRUE)

ClickFinish == \E i \in DOMAIN portal["s1"].flights : FinishAction("s1", i, TRUE)

ClickNext ==
  PortalSetUid \/ PortalSearch \/ ClickSubmit \/ ClickFinish \/ PortalRefetch

SpecClick == ClickInit /\ [][ClickNext]_vars

\* C25: while an action submitted from a session is in flight the same
\* action is not submitted again from that session, so the log never holds
\* a checkpoint twice without a gate-out in between.
C25_NoResubmitWhileInFlight ==
  /\ call.op = "submitAction" => call.action \notin call.inFlight
  /\ \A i, j \in DOMAIN actionLogs :
       (/\ i < j
        /\ actionLogs[i].action = actionLogs[j].action
        /\ actionLogs[i].action \in CheckpointActions \ {"gate-out"})
       => \E k \in (i+1)..(j-1) : actionLogs[k].action = "gate-out"

----------------------------------------------------------------------------
(* Two portal sessions on the same participant, payments included; each
   session submits its next action when its last one has finished and its
   re-fetch has returned *)

MaxPayLog == 3

PayInit ==
  /\ StoreInit({ext \in ImportedStores :
                  ext["B1"].exists /\ ~ext["B2"].exists})
  /\ ruleset = "readme"
  /\ portal = [s \in Sessions |->
                 LoggedIn(CHOOSE u \in Users :
                            u.role = IF s = "s1" THEN "admin"
                                     ELSE "volunteer")]

PaySubmit ==
  /\ Len(actionLogs) < MaxPayLog
  /\ \E s \in Sessions, a \in ActionType :
       /\ portal[s].flights = << >> /\ portal[s].refetch = ""
       /\ SubmitAction(s, a, TRUE, TRUE)

PayNext == TwoSetUid \/ TwoSearch \/ PaySubmit \/ TwoFinish \/ TwoRefetch

SpecPay == PayInit /\ [][PayNext]_vars

\* No handleAction call is between its click and the end of its re-fetch.
AllCompleted ==
  \A s \in Sessions : portal[s].flights = << >> /\ portal[s].refetch = ""

\* C26: with two sessions acting on the same participant, once every
\* in-flight action has completed the status label of the record agrees
\* with its flags: no payment and no delayed status write has put an older
\* label over a newer one.
C26_LabelMirrorsFlagsWhenQuiet ==
  AllCompleted => \A b \in Bids : LabelMirrorsFlags(externals[b])

----------------------------------------------------------------------------
(* Claims about the flags of a record *)

\* C27: no operation sets gateOut to true: in every reachable state every
\* participant record has gateOut false, so the gate-out button is enabled
\* exactly when checkOut is true.
C27_GateOutFlagNeverSet ==
  \A b \in Bids :
    LET d == externals[b] IN
    /\ ~Flag(d, "gateOut")
    /\ d.exists => (ButtonEnabled(d, "gate-out") <=> Flag(d, "checkOut"))

\* A gate-out that followed a check-out has been logged and written for a
\* record that has the field.
C27_Witness ==
  /\ call.op = "logAction" /\ call.action = "gate-out" /\ call.wrote
  /\ "gateOut" \in DOMAIN externals[call.externalUid]
  /\ Len(actionLogs) >= 2
  /\ actionLogs[Len(actionLogs) - 1].action = "check-out"

\* C28: insideCampus equals checkIn in every reachable state of every
\* record: check-in sets both, gate-out clears both and nothing else writes
\* either, so a checked-out participant stays marked inside campus until
\* gate-out.
C28_InsideCampusEqualsCheckIn ==
  \A b \in Bids :
    Flag(externals[b], "insideCampus") = Flag(externals[b], "checkIn")

\* A check-out has been written after a check-in: the participant is checked
\* out and still marked inside campus.
C28_Witness ==
  /\ call.op = "logAction" /\ call.action = "check-out" /\ call.wrote
  /\ Len(actionLogs) >= 2
  /\ actionLogs[Len(actionLogs) - 1].action = "check-in"
  /\ Flag(externals[call.externalUid], "checkOut")
  /\ Flag(externals[call.externalUid], "checkIn")
  /\ Flag(externals[call.externalUid], "insideCampus")

----------------------------------------------------------------------------
(* Volunteer registration, then sign-in *)

\* What can be typed into the e-mail field; the last one fails emailRegex.
Emails == {"w1@x.org", "w2@x.org", "w1"}

\* emailRegex.test(email)
EmailValid(email) == email \in {"w1@x.org", "w2@x.org"}

\* The uids createUserWithEmailAndPassword hands out.
VolunteerUids == {"uW1", "uW2"}

\* The document ids addDoc generates: never an auth uid.
AutoIds == {"d1", "d2"}

\* registerVolunteer(name, email, role): addDoc(collection(db, "users"),
\* volunteer) under the generated id; a failure is rethrown.
RegisterVolunteer(profiles, name, email, role, id, ok) ==
  IF ok
  THEN [users |-> [profiles EXCEPT
                     ![id] = SetDoc([name |-> name, email |-> email,
                                     role |-> role])],
        threw |-> FALSE]
  ELSE [users |-> profiles, threw |-> TRUE]

\* VolunteerRegistration.handleSubmit: the e-mail check, the auth account,
\* the profile, the status shown.  createCode is "" when the account is
\* created and the error code otherwise.
HandleSubmit(email, createCode, addOk) ==
  LET taken == \E a \in accounts : a.email = email
      code  == IF taken THEN "auth/email-already-in-use" ELSE createCode
      uid   == CHOOSE u \in VolunteerUids : \A a \in accounts : a.uid # u
      id    == CHOOSE d \in AutoIds : ~users[d].exists
      r     == RegisterVolunteer(users, "W1", email, "volunteer", id, addOk)
  IN
  /\ \E u \in VolunteerUids : \A a \in accounts : a.uid # u
  /\ \E d \in AutoIds : ~users[d].exists
  /\ IF ~EmailValid(email)
     THEN /\ call' = [op |-> "handleSubmit", email |-> email,
                      status |-> "none",
                      formErrors |-> "Please enter a valid email address."]
          /\ UNCHANGED <<users, accounts>>
     ELSE IF code # ""
     THEN /\ call' = [op |-> "handleSubmit", email |-> email,
                      status |-> "error", formErrors |-> ""]
          /\ UNCHANGED <<users, accounts>>
     ELSE /\ accounts' = accounts \cup
                 {[uid |-> uid, email |-> email, registered |-> ~r.threw]}
          /\ users' = r.users
          /\ call' = [op |-> "handleSubmit", email |-> email,
                      status |-> IF r.threw THEN "error" ELSE "success",
                      formErrors |-> ""]
  /\ UNCHANGED <<storeVars, portal, regVars, ruleset, upload, gen>>

\* Login.handleLogin with the credentials of an account that volunteer
\* registration created.
VolunteerSignIn(authCode, readCode) ==
  \E a \in accounts :
    LET r == SignIn(ruleset, users, a.uid, authCode, readCode) IN
    /\ call' = [op |-> "signIn", uid |-> a.uid, authCode |-> authCode,
                readCode |-> readCode, threw |-> r.threw,
                message |-> r.message, user |-> r.user,
                loginStatus |-> IF r.threw THEN "Invalid credentials" ELSE "",
                registered |-> a.registered]
    /\ portal' = IF r.threw THEN portal
                 ELSE [portal EXCEPT !["s1"].loggedInUser = r.user]
    /\ UNCHANGED <<storeVars, regVars, rulesVars, upload, gen>>

VolInit ==
  /\ externals = EmptyStore
  /\ usedBids = [exists |-> TRUE, usedBids |-> {}]
  /\ actionLogs = << >>
  /\ call = NoCall
  /\ reg = [p \in Procs |-> RegIdle]
  /\ regHist = NoRegHist
  /\ users = [d \in AuthUids \cup VolunteerUids \cup AutoIds |->
                IF d \in AuthUids THEN Profiles[d] ELSE NoDoc]
  /\ accounts = {}
  /\ upload = NoUpload
  /\ gen = NoGen
  /\ ruleset \in Rulesets
  /\ portal = [s \in Sessions |-> LoggedOut]

VolSubmit ==
  \E email \in Emails, createCode \in {"", "auth/weak-password"},
     addOk \in BOOLEAN :
    HandleSubmit(email, createCode, addOk)

VolSignIn ==
  \E authCode \in {"", "auth/wrong-password"}, readCode \in {"", "unavailable"} :
    VolunteerSignIn(authCode, readCode)

VolNext == VolSubmit \/ VolSignIn

SpecVolunteer == VolInit /\ [][VolNext]_vars

\* C29: a volunteer whose registration completed (the auth account was
\* created and registerVolunteer succeeded) can sign in: a signIn whose
\* credentials authenticate and whose profile read is served returns a
\* user with role volunteer.
C29_RegisteredVolunteerSignsIn ==
  (/\ call.op = "signIn" /\ call.registered
   /\ call.authCode = "" /\ call.readCode = "")
  => ~call.threw /\ call.user.role = "volunteer"

====
